---- MODULE Spec2Model ----
(***************************************************************************)
(* Model of the embedding / reranking request pipelines of Embedding-Rust: *)
(* the tokenizer service (truncate + pad), the Triton client (request      *)
(* building, response parsing) and the two services that compose them,     *)
(* with the /health handler and the start-up loading of the tokenizers.    *)
(*                                                                         *)
(* Strings are sequences of characters (small naturals); f32 values are    *)
(* small naturals (only their order and equality matter here).             *)
(***************************************************************************)
EXTENDS Integers, Sequences, FiniteSets, TLC

\* ------------------------------------------------------------------ bounds
MaxTextLen == 2      \* longest input string, in characters
MaxRows    == 2      \* largest batch handed to the tokenizer on its own
MaxSeqLen  == 4      \* largest configured max_sequence_length
MaxTexts   == 3      \* most texts in one embedding request
MaxBatch   == 2      \* largest configured embedding_client_max_batch
MaxDocs    == 3      \* most documents in one rerank request
MaxFloat   == 2      \* relevance scores are 0..MaxFloat
MaxLoaders == 2      \* most calls of one load_*_tokenizer function
MaxKeyLen  == 2      \* longest configured API key, in characters
EmbedDim   == 2      \* width of the vectors the embedding model returns

\* ------------------------------------------------------------ basic values
Min(a, b) == IF a <= b THEN a ELSE b
Max(a, b) == IF a >= b THEN a ELSE b

RECURSIVE SeqsUpTo(_, _)
\* All sequences over S of length 0..n.
SeqsUpTo(S, n) ==
    IF n = 0 THEN {<<>>}
    ELSE LET shorter == SeqsUpTo(S, n - 1)
         IN  shorter \cup {Append(s, x) : s \in {t \in shorter : Len(t) = n - 1}, x \in S}

Chars == {1, 2}          \* ordinary characters of a string
BadChars == {9}          \* characters on which tokenizer.encode returns Err
SepChar == 0             \* the literal " [SEP] " of the reranker's format!()

Strings == SeqsUpTo(Chars, MaxTextLen)
BadString == <<9>>

\* f32 values decoded from a JSON body: finite or infinite, never NaN (JSON
\* has no NaN literal), so partial_cmp between two of them is always Some.
Floats == 0..MaxFloat

\* f32::NAN, a value outside Floats: partial_cmp with it is None.
NaN == MaxFloat + 1

\* Vec::truncate(n): keeps the first n elements, no-op when n >= len.
VecTruncate(v, n) == SubSeq(v, 1, Min(n, Len(v)))

\* vec![x; n]
VecRepeat(x, n) == [i \in 1..n |-> x]

\* --------------------------------------------------------------- tokenizer
\* tokenizer.encode(text, true): one token per character, wrapped in the
\* special tokens the tokenizer adds (add_special_tokens = true); the
\* attention mask of an un-padded encoding is all ones.  u32 -> i64 is exact.
Encode(text) ==
    IF \E i \in 1..Len(text) : text[i] \in BadChars
    THEN [ok |-> FALSE, ids |-> <<>>, mask |-> <<>>]
    ELSE LET ids == <<1>> \o [i \in 1..Len(text) |-> text[i] + 3] \o <<2>>
         IN  [ok |-> TRUE, ids |-> ids, mask |-> VecRepeat(1, Len(ids))]

\* format!("{} [SEP] {}", query, doc)
Combine(query, doc) == query \o <<SepChar>> \o doc

\* Mutant of TruncateRow: the truncation left out.
TruncateRowNever(row, ids_len, max_length) == row

\* "Truncate if exceeds max_length" (first pass, per row).
\* The test is on the ids row; ids and mask are then cut alike.
TruncateRow(row, ids_len, max_length) ==
    IF ids_len > max_length THEN VecTruncate(row, max_length) ELSE row

\* Mutant of BatchMaxLength: the first row's length instead of the longest.
BatchMaxLengthOfFirst(rows) == IF rows = <<>> THEN 0 ELSE Len(rows[1])

\* all_input_ids.iter().map(|ids| ids.len()).max().unwrap_or(0)
RECURSIVE BatchMaxLength(_)
BatchMaxLength(rows) ==
    IF rows = <<>> THEN 0
    ELSE Max(Len(rows[1]), BatchMaxLength(Tail(rows)))

\* Second pass, per row: padding = batch_max_length - row.len(), computed on
\* the ids row and applied to the ids row and to the mask row alike.
Padding(ids_row, batch_max_length) == batch_max_length - Len(ids_row)

\* Mutant of PadRow: the padding put in front of the row.
PadRowLeft(row, padding) ==
    IF padding > 0 THEN VecRepeat(0, padding) \o row ELSE row

\* ids.extend(vec![0; padding]) / mask.extend(vec![0; padding])
PadRow(row, padding) ==
    IF padding > 0 THEN row \o VecRepeat(0, padding) ELSE row

\* The two passes over a list of strings already prepared for the encoder.
\* Returns Err(Tokenization) as soon as one encode fails.
TokenizeBatch(inputs, max_length) ==
    LET n   == Len(inputs)
        enc == [i \in 1..n |-> Encode(inputs[i])]
    IN  IF \E i \in 1..n : ~enc[i].ok
        THEN [ok |-> FALSE, err |-> "Tokenization",
              input_ids |-> <<>>, attention_mask |-> <<>>]
        ELSE LET ids  == [i \in 1..n |->
                            TruncateRow(enc[i].ids, Len(enc[i].ids), max_length)]
                 mask == [i \in 1..n |->
                            TruncateRow(enc[i].mask, Len(enc[i].ids), max_length)]
                 batch_max_length == BatchMaxLength(ids)
             IN  [ok |-> TRUE, err |-> "",
                  input_ids |-> [i \in 1..n |->
                      PadRow(ids[i], Padding(ids[i], batch_max_length))],
                  attention_mask |-> [i \in 1..n |->
                      PadRow(mask[i], Padding(ids[i], batch_max_length))]]

\* EMBEDDING_TOKENIZER.get() / RERANKER_TOKENIZER.get(): Err(Internal) when
\* the cell is empty.
NotInitialized ==
    [ok |-> FALSE, err |-> "Internal", input_ids |-> <<>>, attention_mask |-> <<>>]

tokenize_for_embedding(tokenizer, texts, max_length) ==
    IF tokenizer # "loaded" THEN NotInitialized
    ELSE TokenizeBatch(texts, max_length)

tokenize_for_reranking(tokenizer, query, documents, max_length) ==
    IF tokenizer # "loaded" THEN NotInitialized
    ELSE TokenizeBatch([i \in 1..Len(documents) |-> Combine(query, documents[i])],
                       max_length)

\* ----------------------------------------------------------- models/mod.rs
TASK_MAPPING ==
    << <<"retrieval.query", 0>>, <<"retrieval.passage", 1>>, <<"separation", 2>>,
       <<"classification", 3>>, <<"text-matching", 4>> >>

\* Mutant of get_task_id: the position in TASK_MAPPING instead of the id
\* stored there.
get_task_id_position(task) ==
    LET hits == {i \in 1..Len(TASK_MAPPING) : TASK_MAPPING[i][1] = task}
    IN  IF hits = {} THEN 0
        ELSE CHOOSE i \in hits : \A j \in hits : i <= j

\* TASK_MAPPING.iter().find(|(t, _)| *t == task).map(|(_, id)| *id).unwrap_or(0)
get_task_id(task) ==
    LET hits == {i \in 1..Len(TASK_MAPPING) : TASK_MAPPING[i][1] = task}
    IN  IF hits = {} THEN 0
        ELSE TASK_MAPPING[CHOOSE i \in hits : \A j \in hits : i <= j][2]

\* ------------------------------------------------------------ slice helpers
\* Mutant of Chunks: chunks_exact, which leaves the short remainder out.
RECURSIVE ChunksExact(_, _)
ChunksExact(v, size) ==
    IF Len(v) < size THEN <<>>
    ELSE <<SubSeq(v, 1, size)>> \o ChunksExact(SubSeq(v, size + 1, Len(v)), size)

\* Mutant of Chunks: every chunk one element longer than asked for.
RECURSIVE ChunksTooLong(_, _)
ChunksTooLong(v, size) ==
    IF v = <<>> THEN <<>>
    ELSE LET n == Min(size + 1, Len(v))
         IN  <<SubSeq(v, 1, n)>> \o ChunksTooLong(SubSeq(v, n + 1, Len(v)), size)

\* slice.chunks(size), size > 0: consecutive sub-slices of `size` elements,
\* the last one possibly shorter; no sub-slice for an empty slice.
RECURSIVE Chunks(_, _)
Chunks(v, size) ==
    IF v = <<>> THEN <<>>
    ELSE LET n == Min(size, Len(v))
         IN  <<SubSeq(v, 1, n)>> \o Chunks(SubSeq(v, n + 1, Len(v)), size)

\* Mutant of Flatten: the rows laid out last row first.
RECURSIVE FlattenReversed(_)
FlattenReversed(rows) ==
    IF rows = <<>> THEN <<>> ELSE FlattenReversed(Tail(rows)) \o rows[1]

\* rows.iter().flatten().copied().collect()
RECURSIVE Flatten(_)
Flatten(rows) ==
    IF rows = <<>> THEN <<>> ELSE rows[1] \o Flatten(Tail(rows))

\* ------------------------------------------------------------ triton client
TritonInferenceInput(name, shape, data) ==
    [name |-> name, shape |-> shape, datatype |-> "INT64", data |-> data]

\* The TritonInferRequest of get_embeddings.  The caller guarantees a
\* non-empty batch (input_ids[0] is read for seq_length).
EmbeddingsRequest(input_ids, attention_mask, task_id) ==
    LET batch_size == Len(input_ids)
        seq_length == Len(input_ids[1])
    IN  [model   |-> "embedding",
         inputs  |-> << TritonInferenceInput("input_ids", <<batch_size, seq_length>>,
                                             Flatten(input_ids)),
                        TritonInferenceInput("attention_mask", <<batch_size, seq_length>>,
                                             Flatten(attention_mask)),
                        TritonInferenceInput("task_id", <<batch_size, 1>>,
                                             VecRepeat(task_id, batch_size)) >>,
         outputs |-> << [name |-> "13049"] >>]

\* Mutant of ScoresRequest: the request of the embedding model, task_id
\* tensor included.
ScoresRequestWithTask(input_ids, attention_mask) ==
    EmbeddingsRequest(input_ids, attention_mask, 0)

\* The TritonInferRequest of get_scores.
ScoresRequest(input_ids, attention_mask) ==
    LET batch_size == Len(input_ids)
        seq_length == Len(input_ids[1])
    IN  [model   |-> "reranker",
         inputs  |-> << TritonInferenceInput("input_ids", <<batch_size, seq_length>>,
                                             Flatten(input_ids)),
                        TritonInferenceInput("attention_mask", <<batch_size, seq_length>>,
                                             Flatten(attention_mask)) >>,
         outputs |-> << [name |-> "scores"] >>]

\* What comes back from client.post(url).json(&request).send().await and the
\* body read that follows:
\*   sent = FALSE            reqwest error (connect / timeout)
\*   status                  HTTP status of the reply
\*   decodable = FALSE       the body is not a TritonInferResponse
\*   outputs                 the decoded outputs, each [shape, data]
Reply(sent, status, decodable, outputs) ==
    [sent |-> sent, status |-> status, decodable |-> decodable, outputs |-> outputs]

\* StatusCode::is_success
is_success(status) == status \in 200..299

Ok(value)  == [kind |-> "Ok",  error |-> "",  value |-> value]
Err(error) == [kind |-> "Err", error |-> error, value |-> <<>>]
Panicked   == [kind |-> "Panic", error |-> "", value |-> <<>>]
Pending    == [kind |-> "Pending", error |-> "", value |-> <<>>]

\* Mutant of EmbeddingsFromReply: a failed call counts as "no vectors" and
\* the loop goes on.
EmbeddingsFromReplyLenient(reply) ==
    IF ~reply.sent \/ ~is_success(reply.status) \/ ~reply.decodable
       \/ reply.outputs = <<>>
    THEN Ok(<<>>)
    ELSE LET output == reply.outputs[1]
             embedding_dim == IF Len(output.shape) >= 2 THEN output.shape[2] ELSE 0
         IN  IF embedding_dim = 0 THEN Panicked
             ELSE Ok(Chunks(output.data, embedding_dim))

\* get_embeddings after the await: status test, decode, first output,
\* un-flatten by shape[1] (0 when the shape has no second dimension).
\* data.chunks(0) panics.
EmbeddingsFromReply(reply) ==
    IF ~reply.sent THEN Err("TritonConnection")
    ELSE IF ~is_success(reply.status) THEN Err("Inference")
    ELSE IF ~reply.decodable THEN Err("Inference")
    ELSE IF reply.outputs = <<>> THEN Err("Inference")
    ELSE LET output == reply.outputs[1]
             embedding_dim == IF Len(output.shape) >= 2 THEN output.shape[2] ELSE 0
         IN  IF embedding_dim = 0 THEN Panicked
             ELSE Ok(Chunks(output.data, embedding_dim))

\* Mutant of ScoresFromReply: a reply without outputs counts as "no scores".
ScoresFromReplyDefault(reply) ==
    IF ~reply.sent THEN Err("TritonConnection")
    ELSE IF ~is_success(reply.status) THEN Err("Inference")
    ELSE IF ~reply.decodable THEN Err("Inference")
    ELSE IF reply.outputs = <<>> THEN Ok(<<>>)
    ELSE Ok(reply.outputs[1].data)

\* get_scores after the await: status test, decode, first output's data.
ScoresFromReply(reply) ==
    IF ~reply.sent THEN Err("TritonConnection")
    ELSE IF ~is_success(reply.status) THEN Err("Inference")
    ELSE IF ~reply.decodable THEN Err("Inference")
    ELSE IF reply.outputs = <<>> THEN Err("Inference")
    ELSE Ok(reply.outputs[1].data)

\* ------------------------------------------------------------------ backend
RECURSIVE SumSeq(_)
SumSeq(v) == IF v = <<>> THEN 0 ELSE v[1] + SumSeq(Tail(v))

\* Row r of a request tensor, read the way the backend reads it: shape
\* [rows, cols] over row-major flat data.
TensorRow(input, r) ==
    LET cols == input.shape[2]
    IN  [j \in 1..cols |-> input.data[(r - 1) * cols + j]]

\* The model's vector for one row: a function of that row's ids and mask.
ModelVector(ids_row, mask_row) ==
    [j \in 1..EmbedDim |-> IF j = 1 THEN SumSeq(ids_row) ELSE SumSeq(mask_row) + j]

\* Flat output of a backend that embeds every row of the request.
ModelOutput(request) ==
    Flatten([r \in 1..request.inputs[1].shape[1] |->
                ModelVector(TensorRow(request.inputs[1], r),
                            TensorRow(request.inputs[2], r))])

TransportErrors ==
    { Reply(FALSE, 0, FALSE, <<>>),      \* connection error / timeout
      Reply(TRUE, 500, FALSE, <<>>),     \* non-2xx status
      Reply(TRUE, 200, FALSE, <<>>),     \* 2xx, body not decodable
      Reply(TRUE, 200, TRUE, <<>>) }     \* 2xx, zero outputs

\* Replies to an embedding /infer request.  The client does not control the
\* body: besides the faithful output the backend may send one row too few,
\* one row too many, a ragged last row, or a shape without a usable second
\* dimension.
EmbeddingReplies(request) ==
    LET b      == request.inputs[1].shape[1]
        full   == ModelOutput(request)
        datas  == { full,
                    SubSeq(full, 1, Len(full) - EmbedDim),
                    full \o VecRepeat(0, EmbedDim),
                    SubSeq(full, 1, Len(full) - 1) }
        shapes == { <<b, EmbedDim>>, <<b, 0>>, <<b>> }
    IN  TransportErrors \cup
        { Reply(TRUE, 200, TRUE, << [shape |-> sh, data |-> d] >>) :
              sh \in shapes, d \in datas }

\* Replies to a reranker /infer request: any list of scores whose length is
\* the batch size, one less or one more.
ScoreLists == SeqsUpTo(Floats, MaxDocs + 1)

ScoreReplies(request) ==
    LET b == request.inputs[1].shape[1]
    IN  TransportErrors \cup
        { Reply(TRUE, 200, TRUE, << [shape |-> <<Len(d)>>, data |-> d] >>) :
              d \in {x \in ScoreLists : Len(x) \in (b - 1)..(b + 1)} }

\* The `data` array of a reranker response body as written on the wire: one
\* token per score, a number or the token NaN.  All bodies of `n` tokens.
ScoreBodies(n) == {x \in SeqsUpTo(Floats \cup {NaN}, n) : Len(x) = n}

\* Mutant of DecodeScoresBody: a decoder that reads the token NaN as
\* f32::NAN.
DecodeScoresBodyWithNaN(body) ==
    Reply(TRUE, 200, TRUE, << [shape |-> <<Len(body)>>, data |-> body] >>)

\* response.json::<TritonInferResponse>() on a 200 reply with that data
\* array: serde_json has no NaN literal, so a body holding the token is a
\* parse error; any other body decodes to its numbers.
DecodeScoresBody(body) ==
    IF \E i \in 1..Len(body) : body[i] = NaN
    THEN Reply(TRUE, 200, FALSE, <<>>)
    ELSE Reply(TRUE, 200, TRUE, << [shape |-> <<Len(body)>>, data |-> body] >>)

\* -------------------------------------------------------------------- state
VARIABLES
    settings,             \* Settings::get(): the fields the pipelines read
    EMBEDDING_TOKENIZER,  \* the OnceLock cell: "empty" or "loaded"
    RERANKER_TOKENIZER,   \* the OnceLock cell: "empty" or "loaded"
    tok,                  \* the last direct call of the tokenizer service
    emb,                  \* the create_embeddings invocation
    rr,                   \* the rerank_documents invocation
    in_flight,            \* /infer requests sent and not yet answered
    log,                  \* calls made so far: tokenizer inputs, requests, replies
    health,               \* the GET /health invocation
    loads,                \* the calls of load_embedding_tokenizer / load_reranker_tokenizer
    http                  \* the HTTP request going through the router

vars == <<settings, EMBEDDING_TOKENIZER, RERANKER_TOKENIZER, tok, emb, rr, in_flight, log,
          health, loads, http>>

Settings(max_batch, max_len, reranker_max_len) ==
    [embedding_client_max_batch   |-> max_batch,
     max_sequence_length          |-> max_len,
     reranker_max_sequence_length |-> reranker_max_len]

NoTokCall ==
    [fn |-> "none", query |-> <<>>, inputs |-> <<>>, max_length |-> 0,
     out |-> NotInitialized]

EmbIdle ==
    [pc |-> "idle", texts |-> <<>>, task |-> "", task_id |-> 0, chunks |-> <<>>,
     chunk_no |-> 0, all_embeddings |-> <<>>, result |-> Pending]

RrIdle ==
    [pc |-> "idle", query |-> <<>>, documents |-> <<>>, top_n |-> <<>>,
     return_documents |-> FALSE, result |-> Pending]

\* `answered` names, for each reply, the invocation that received it and the
\* request it answers.
\* `bodies` holds the data arrays of the reranker replies that were followed
\* down to their bytes.
EmptyLog ==
    [tokenize |-> <<>>, infer |-> <<>>, reply |-> <<>>, answered |-> <<>>,
     bodies |-> <<>>]

\* Mutant of InFlightOf: whichever request is first, whoever sent it.
InFlightHead(model) == IF in_flight = <<>> THEN 0 ELSE 1

\* The position in in_flight of the request an invocation on `model` is
\* awaiting (0 when there is none): an awaited send() completes with the
\* response to the request it sent.
InFlightOf(model) ==
    LET hits == {k \in 1..Len(in_flight) : in_flight[k].model = model}
    IN  IF hits = {} THEN 0 ELSE CHOOSE k \in hits : \A j \in hits : k <= j

\* A sequence with its k-th element taken out.
Without(seq, k) == SubSeq(seq, 1, k - 1) \o SubSeq(seq, k + 1, Len(seq))

\* No /health request yet.  `service` is the service whose is_ready is
\* running, `live` the value is_server_live gave it, `probes` the probe
\* calls made, `is_ready` what each is_ready call returned.
HealthIdle ==
    [pc |-> "idle", service |-> "", live |-> FALSE, probes |-> <<>>,
     is_ready |-> <<>>, embedding_ready |-> FALSE, response |-> <<>>]

\* No HTTP request yet.  `status` is the response status once there is one,
\* `handler` the route handler the request was passed to ("" for none).
HttpIdle ==
    [pc |-> "idle", path |-> "", authorization |-> <<>>, handler |-> "",
     status |-> 0]

\* The callers of one load function: none has called yet.  `file` is what
\* the tokenizer_file setting of that model names ("unset" for None),
\* `from_file` counts the Tokenizer::from_file loads that succeeded,
\* `installs` the OnceLock::set calls that stored their tokenizer.
Loaders == 1..MaxLoaders

NotLoaded(file) ==
    [file |-> file, from_file |-> 0, installs |-> 0,
     calls |-> [t \in Loaders |-> [pc |-> "idle", result |-> Pending]]]

\* main(): one call, which read the file and installed the tokenizer.
LoadedByMain ==
    [file |-> "readable", from_file |-> 1, installs |-> 1,
     calls |-> [t \in Loaders |->
                  IF t = 1 THEN [pc |-> "done", result |-> Ok(<<>>)]
                  ELSE [pc |-> "idle", result |-> Pending]]]

\* State once main() has loaded both tokenizers and built the services.
Started ==
    /\ EMBEDDING_TOKENIZER = "loaded"
    /\ RERANKER_TOKENIZER = "loaded"
    /\ tok = NoTokCall
    /\ emb = EmbIdle
    /\ rr = RrIdle
    /\ in_flight = <<>>
    /\ log = EmptyLog
    /\ health = HealthIdle
    /\ loads = [embedding |-> LoadedByMain, reranker |-> LoadedByMain]
    /\ http = HttpIdle

\* -------------------------------------------------------- embedding service
\* .enumerate().map(|(index, vector)| EmbeddingModel { vector, index })
EmbeddingModels(all_embeddings) ==
    [i \in 1..Len(all_embeddings) |-> [vector |-> all_embeddings[i], index |-> i - 1]]

\* Mutant of EmbeddingInputRejected: the emptiness test left out.
EmbeddingInputNeverRejected(texts) == FALSE

\* if texts.is_empty() { return Err(Validation) }
EmbeddingInputRejected(texts) == texts = <<>>

\* The body of `for chunk in texts.chunks(max_batch)` from the top of the
\* iteration for chunk e.chunk_no up to the await of get_embeddings, or the
\* code after the loop when the chunks are used up.  Yields the invocation,
\* the requests put on the wire and the log.
EmbeddingLoop(e, lg) ==
    IF e.chunk_no > Len(e.chunks)
    THEN [emb  |-> [e EXCEPT !.pc = "done",
                             !.result = Ok(EmbeddingModels(e.all_embeddings))],
          sent |-> <<>>, log |-> lg]
    ELSE LET chunk_vec == e.chunks[e.chunk_no]
             t   == tokenize_for_embedding(EMBEDDING_TOKENIZER, chunk_vec,
                                           settings.max_sequence_length)
             lg1 == [lg EXCEPT !.tokenize = Append(@, chunk_vec)]
         IN  IF ~t.ok
             THEN [emb  |-> [e EXCEPT !.pc = "done", !.result = Err(t.err)],
                   sent |-> <<>>, log |-> lg1]
             ELSE IF t.input_ids = <<>>      \* input_ids[0] out of bounds
             THEN [emb  |-> [e EXCEPT !.pc = "done", !.result = Panicked],
                   sent |-> <<>>, log |-> lg1]
             ELSE LET request == EmbeddingsRequest(t.input_ids, t.attention_mask,
                                                   e.task_id)
                  IN  [emb  |-> [e EXCEPT !.pc = "await"],
                       sent |-> <<request>>,
                       log  |-> [lg1 EXCEPT !.infer = Append(@, request)]]

\* create_embeddings from its call to its first await (or early return).
\* Yields the invocation, the requests put on the wire and the log.
EmbeddingCalled(texts, task, lg) ==
    LET called == [EmbIdle EXCEPT !.texts = texts, !.task = task]
        max_batch == settings.embedding_client_max_batch
    IN  IF EmbeddingInputRejected(texts)
        THEN [emb  |-> [called EXCEPT !.pc = "done", !.result = Err("Validation")],
              sent |-> <<>>, log |-> lg]
        ELSE IF max_batch = 0         \* chunks(0) panics
        THEN [emb  |-> [called EXCEPT !.pc = "done", !.task_id = get_task_id(task),
                                      !.result = Panicked],
              sent |-> <<>>, log |-> lg]
        ELSE EmbeddingLoop([called EXCEPT !.task_id = get_task_id(task),
                                          !.chunks = Chunks(texts, max_batch),
                                          !.chunk_no = 1],
                           lg)

\* create_embeddings resumed by the answer to its /infer call: the rest of
\* get_embeddings, `?`, all_embeddings.extend, and the next iteration.
EmbeddingResumed(e, lg, request, reply) ==
    LET embeddings == EmbeddingsFromReply(reply)
        lg1 == [lg EXCEPT !.reply = Append(@, reply),
                          !.answered = Append(@, [by |-> "embedding",
                                                  request |-> request])]
    IN  IF embeddings.kind # "Ok"
        THEN [emb  |-> [e EXCEPT !.pc = "done", !.result = embeddings],
              sent |-> <<>>, log |-> lg1]
        ELSE EmbeddingLoop([e EXCEPT !.all_embeddings = @ \o embeddings.value,
                                     !.chunk_no = @ + 1],
                           lg1)

create_embeddings(texts, task) ==
    /\ emb.pc = "idle"
    /\ LET step == EmbeddingCalled(texts, task, log)
       IN  /\ emb' = step.emb
           /\ in_flight' = in_flight \o step.sent
           /\ log' = step.log
    /\ UNCHANGED <<settings, http, EMBEDDING_TOKENIZER, RERANKER_TOKENIZER, health, loads, tok, rr>>

create_embeddings_resume ==
    /\ emb.pc = "await"
    /\ InFlightOf("embedding") # 0
    /\ LET k == InFlightOf("embedding")
       IN  \E reply \in EmbeddingReplies(in_flight[k]) :
           LET step == EmbeddingResumed(emb, log, in_flight[k], reply)
           IN  /\ emb' = step.emb
               /\ in_flight' = Without(in_flight, k) \o step.sent
               /\ log' = step.log
    /\ UNCHANGED <<settings, http, EMBEDDING_TOKENIZER, RERANKER_TOKENIZER, health, loads, tok, rr>>

\* Inputs of the embedding requests explored.
EmbeddingTexts == { <<1>>, <<2, 1>>, BadString }
EmbeddingTasks == { "retrieval.passage", "no-such-task" }

InitEmbedding ==
    /\ settings \in { Settings(b, l, MaxSeqLen) :
                        b \in 0..MaxBatch, l \in {MaxSeqLen - 1, MaxSeqLen} }
    /\ Started

NextEmbedding ==
    \/ \E texts \in SeqsUpTo(EmbeddingTexts, MaxTexts), task \in EmbeddingTasks :
           create_embeddings(texts, task)
    \/ create_embeddings_resume

SpecEmbedding == InitEmbedding /\ [][NextEmbedding]_vars

\* -------------------------------------------------------- reranking service
\* Option<T>: None is <<>>, Some(x) is <<x>>.
None == <<>>
Some(x) == <<x>>

\* Mutant of RerankInputRejected: the emptiness test left out.
RerankInputNeverRejected(documents) == FALSE

\* if documents.is_empty() { return Err(Validation) }
RerankInputRejected(documents) == documents = <<>>

\* scores.into_iter().enumerate().map(...): one RerankModel per score.
\* documents[index] is read only when return_documents is set.
RerankModels(scores, documents, return_documents) ==
    [i \in 1..Len(scores) |->
        [index |-> i - 1, relevance_score |-> scores[i],
         document |-> IF return_documents THEN Some(documents[i]) ELSE None]]

\* Mutant of GoesBefore: an element also goes before the ones it ties with.
GoesBeforeOrTies(a, b) == a.relevance_score >= b.relevance_score

\* Mutant of GoesBefore: the operands of the comparison swapped (ascending).
GoesBeforeAscending(a, b) == a.relevance_score < b.relevance_score

\* The comparison closure of sort_by: b.partial_cmp(a), so "Less" (a goes
\* first) when a's score is the greater one.
GoesBefore(a, b) == a.relevance_score > b.relevance_score

\* results.sort_by(cmp): a stable sort; an element is placed after every
\* element it does not strictly precede.
RECURSIVE SortInsert(_, _)
SortInsert(sorted, x) ==
    IF sorted = <<>> THEN <<x>>
    ELSE IF GoesBefore(x, sorted[1]) THEN <<x>> \o sorted
    ELSE <<sorted[1]>> \o SortInsert(Tail(sorted), x)

RECURSIVE SortBy(_)
SortBy(results) ==
    IF results = <<>> THEN <<>>
    ELSE SortInsert(SortBy(SubSeq(results, 1, Len(results) - 1)),
                    results[Len(results)])

\* if let Some(n) = top_n { results.truncate(n) }
ApplyTopN(results, top_n) ==
    IF top_n = None THEN results ELSE VecTruncate(results, top_n[1])

\* rerank_documents after the await of get_scores: `?`, the map over the
\* scores (documents[index] panics when a score has no document), the
\* sort (partial_cmp(..).unwrap() panics on a NaN as soon as there are two
\* elements to compare) and the truncation.
RerankResult(scores, documents, top_n, return_documents) ==
    IF scores.kind # "Ok" THEN scores
    ELSE IF return_documents /\ Len(scores.value) > Len(documents) THEN Panicked
    ELSE IF Len(scores.value) >= 2 /\ \E i \in 1..Len(scores.value) : scores.value[i] = NaN
    THEN Panicked
    ELSE Ok(ApplyTopN(SortBy(RerankModels(scores.value, documents, return_documents)),
                      top_n))

\* rerank_documents from its call to the await of get_scores (or early
\* return).  Yields the invocation, the requests put on the wire and the log.
RerankCalled(query, documents, top_n, return_documents, lg) ==
    LET called == [RrIdle EXCEPT !.query = query, !.documents = documents,
                                 !.top_n = top_n,
                                 !.return_documents = return_documents]
    IN  IF RerankInputRejected(documents)
        THEN [rr   |-> [called EXCEPT !.pc = "done", !.result = Err("Validation")],
              sent |-> <<>>, log |-> lg]
        ELSE LET t   == tokenize_for_reranking(RERANKER_TOKENIZER, query, documents,
                                               settings.reranker_max_sequence_length)
                 lg1 == [lg EXCEPT !.tokenize = Append(@, documents)]
             IN  IF ~t.ok
                 THEN [rr   |-> [called EXCEPT !.pc = "done", !.result = Err(t.err)],
                       sent |-> <<>>, log |-> lg1]
                 ELSE IF t.input_ids = <<>>     \* input_ids[0] out of bounds
                 THEN [rr   |-> [called EXCEPT !.pc = "done", !.result = Panicked],
                       sent |-> <<>>, log |-> lg1]
                 ELSE LET request == ScoresRequest(t.input_ids, t.attention_mask)
                      IN  [rr   |-> [called EXCEPT !.pc = "await"],
                           sent |-> <<request>>,
                           log  |-> [lg1 EXCEPT !.infer = Append(@, request)]]

\* rerank_documents resumed by the answer to its /infer call: the rest of
\* get_scores, then RerankResult.
RerankResumed(r, lg, request, reply) ==
    [rr   |-> [r EXCEPT !.pc = "done",
                        !.result = RerankResult(ScoresFromReply(reply), r.documents,
                                                r.top_n, r.return_documents)],
     sent |-> <<>>,
     log  |-> [lg EXCEPT !.reply = Append(@, reply),
                         !.answered = Append(@, [by |-> "reranker",
                                                 request |-> request])]]

rerank_documents(query, documents, top_n, return_documents) ==
    /\ rr.pc = "idle"
    /\ LET step == RerankCalled(query, documents, top_n, return_documents, log)
       IN  /\ rr' = step.rr
           /\ in_flight' = in_flight \o step.sent
           /\ log' = step.log
    /\ UNCHANGED <<settings, http, EMBEDDING_TOKENIZER, RERANKER_TOKENIZER, health, loads, tok, emb>>

rerank_documents_resume ==
    /\ rr.pc = "await"
    /\ InFlightOf("reranker") # 0
    /\ LET k == InFlightOf("reranker")
       IN  \E reply \in ScoreReplies(in_flight[k]) :
           LET step == RerankResumed(rr, log, in_flight[k], reply)
           IN  /\ rr' = step.rr
               /\ in_flight' = Without(in_flight, k) \o step.sent
               /\ log' = step.log
    /\ UNCHANGED <<settings, http, EMBEDDING_TOKENIZER, RERANKER_TOKENIZER, health, loads, tok, emb>>

\* rerank_documents resumed by a 200 answer followed down to the data
\* array of its body: the decoding, then as rerank_documents_resume.
rerank_documents_resume_body ==
    /\ rr.pc = "await"
    /\ InFlightOf("reranker") # 0
    /\ LET k == InFlightOf("reranker")
       IN  \E body \in ScoreBodies(in_flight[k].inputs[1].shape[1]) :
           LET step == RerankResumed(rr, log, in_flight[k], DecodeScoresBody(body))
           IN  /\ rr' = step.rr
               /\ in_flight' = Without(in_flight, k) \o step.sent
               /\ log' = [step.log EXCEPT !.bodies = Append(@, body)]
    /\ UNCHANGED <<settings, http, EMBEDDING_TOKENIZER, RERANKER_TOKENIZER, health, loads, tok, emb>>

\* Inputs of the rerank requests explored.
RerankQueries   == { <<1>> }
RerankDocuments == { <<>>, <<2, 1>>, BadString }
TopNs == {None} \cup {Some(n) : n \in 0..(MaxDocs + 1)}

InitReranking ==
    /\ settings = Settings(MaxBatch, MaxSeqLen, MaxSeqLen + 1)
    /\ Started

NextReranking ==
    \/ \E query \in RerankQueries, documents \in SeqsUpTo(RerankDocuments, MaxDocs),
          top_n \in TopNs, return_documents \in BOOLEAN :
           rerank_documents(query, documents, top_n, return_documents)
    \/ rerank_documents_resume

SpecReranking == InitReranking /\ [][NextReranking]_vars

\* --------------------------------------------- tokenizer service on its own
\* The two public tokenizer functions called directly, once per behaviour,
\* over every batch of up to MaxRows strings and every configured maximum
\* length.
TokenizerInputs == SeqsUpTo(Strings \cup {BadString}, MaxRows)
TokenizerQueries == SeqsUpTo(Chars, 1)

call_tokenize_for_embedding ==
    /\ tok.fn = "none"
    /\ \E texts \in TokenizerInputs :
         tok' = [fn |-> "embedding", query |-> <<>>, inputs |-> texts,
                 max_length |-> settings.max_sequence_length,
                 out |-> tokenize_for_embedding(EMBEDDING_TOKENIZER, texts,
                                                settings.max_sequence_length)]
    /\ UNCHANGED <<settings, http, EMBEDDING_TOKENIZER, RERANKER_TOKENIZER, health, loads, emb, rr,
                   in_flight, log>>

call_tokenize_for_reranking ==
    /\ tok.fn = "none"
    /\ \E query \in TokenizerQueries, documents \in TokenizerInputs :
         tok' = [fn |-> "reranking", query |-> query, inputs |-> documents,
                 max_length |-> settings.reranker_max_sequence_length,
                 out |-> tokenize_for_reranking(RERANKER_TOKENIZER, query, documents,
                                                settings.reranker_max_sequence_length)]
    /\ UNCHANGED <<settings, http, EMBEDDING_TOKENIZER, RERANKER_TOKENIZER, health, loads, emb, rr,
                   in_flight, log>>

InitTokenizer ==
    /\ settings \in { Settings(MaxBatch, l, l) : l \in 0..MaxSeqLen }
    /\ Started

NextTokenizer ==
    \/ call_tokenize_for_embedding
    \/ call_tokenize_for_reranking

SpecTokenizer == InitTokenizer /\ [][NextTokenizer]_vars

\* -------------------------------------------- the service, one request
\* One request of either kind, handled from its call to its result.
Init == InitReranking

Next ==
    \/ rr.pc = "idle" /\ NextEmbedding
    \/ emb.pc = "idle" /\ NextReranking

Spec == Init /\ [][Next]_vars

\* ------------------------------------- embedding requests, every task name
\* Short embedding requests under every task name of TASK_MAPPING, a name
\* that is not in it, and the empty string.
TaskNames ==
    { "retrieval.query", "retrieval.passage", "separation", "classification",
      "text-matching", "no-such-task", "" }
TaskTexts == { <<1>>, BadString }

InitTasks ==
    /\ settings \in { Settings(b, MaxSeqLen, MaxSeqLen) : b \in 0..MaxBatch }
    /\ Started

NextTasks ==
    \/ \E texts \in SeqsUpTo(TaskTexts, 2), task \in TaskNames :
           create_embeddings(texts, task)
    \/ create_embeddings_resume

SpecTasks == InitTasks /\ [][NextTasks]_vars

\* ------------------------------------------------------------------ /health
\* What a probe GET comes back with: sent = FALSE is a reqwest error.
ProbeAnswer(sent, status) == [sent |-> sent, status |-> status]

ProbeAnswers ==
    { ProbeAnswer(FALSE, 0), ProbeAnswer(TRUE, 200), ProbeAnswer(TRUE, 204),
      ProbeAnswer(TRUE, 404), ProbeAnswer(TRUE, 503) }

\* let response = self.client.get(&url).send().await?;
\* Ok(response.status().is_success())
is_server_live(answer) ==
    IF ~answer.sent THEN Err("TritonConnection") ELSE Ok(is_success(answer.status))

is_model_ready(answer) ==
    IF ~answer.sent THEN Err("TritonConnection") ELSE Ok(is_success(answer.status))

\* Result::unwrap_or
unwrap_or(result, default) == IF result.kind = "Ok" THEN result.value ELSE default

\* health_check once the running is_ready has returned `result`:
\* unwrap_or(false), then the other service's is_ready or the Json reply.
IsReadyReturned(h, result) ==
    LET ready  == unwrap_or(result, FALSE)
        called == [h EXCEPT !.is_ready =
                                Append(@, [service |-> h.service, result |-> result])]
    IN  IF h.service = "embedding"
        THEN [called EXCEPT !.embedding_ready = ready, !.service = "reranking",
                            !.pc = "live"]
        ELSE [called EXCEPT !.pc = "done",
                            !.response = [status |-> "ok",
                                          embedding_service |-> [ready |-> h.embedding_ready],
                                          reranking_service |-> [ready |-> ready]]]

\* GET /health from the call to the first probe of embedding_service.is_ready.
health_check ==
    /\ health.pc = "idle"
    /\ health' = [health EXCEPT !.pc = "live", !.service = "embedding"]
    /\ UNCHANGED <<settings, http, EMBEDDING_TOKENIZER, RERANKER_TOKENIZER, loads, tok, emb, rr,
                   in_flight, log>>

\* is_ready resumed by the answer to GET /v2/health/live: `?` returns the
\* error, otherwise the model probe is sent.
is_server_live_answered ==
    /\ health.pc = "live"
    /\ \E answer \in ProbeAnswers :
       LET live   == is_server_live(answer)
           probed == [health EXCEPT !.probes =
                          Append(@, [service |-> health.service, probe |-> "live",
                                     answer |-> answer])]
       IN  health' = IF live.kind # "Ok" THEN IsReadyReturned(probed, live)
                     ELSE [probed EXCEPT !.live = live.value, !.pc = "ready"]
    /\ UNCHANGED <<settings, http, EMBEDDING_TOKENIZER, RERANKER_TOKENIZER, loads, tok, emb, rr,
                   in_flight, log>>

\* is_ready resumed by the answer to GET /v2/models/{model}/ready: `?`
\* returns the error, otherwise Ok(live && ready).
is_model_ready_answered ==
    /\ health.pc = "ready"
    /\ \E answer \in ProbeAnswers :
       LET ready  == is_model_ready(answer)
           probed == [health EXCEPT !.probes =
                          Append(@, [service |-> health.service, probe |-> "ready",
                                     answer |-> answer])]
       IN  health' = IF ready.kind # "Ok" THEN IsReadyReturned(probed, ready)
                     ELSE IsReadyReturned(probed, Ok(health.live /\ ready.value))
    /\ UNCHANGED <<settings, http, EMBEDDING_TOKENIZER, RERANKER_TOKENIZER, loads, tok, emb, rr,
                   in_flight, log>>

InitHealth == InitReranking

NextHealth ==
    \/ health_check
    \/ is_server_live_answered
    \/ is_model_ready_answered

SpecHealth == InitHealth /\ [][NextHealth]_vars

\* ------------------------------------------------------------------ startup
\* A load_*_tokenizer call up to (not including) OnceLock::set: the file
\* setting is read (None is an error), then Tokenizer::from_file reads and
\* parses the file.  The cell is not consulted.
LoadFromFile(cell, t) ==
    IF cell.file = "unset" \/ cell.file = "unreadable"
    THEN [cell EXCEPT !.calls[t] = [pc |-> "done", result |-> Err("Tokenization")]]
    ELSE [cell EXCEPT !.from_file = @ + 1, !.calls[t].pc = "set"]

\* OnceLock::set: stores the value when the cell is empty, Err otherwise;
\* a full cell is left as it is.
OnceLockSet(lock) ==
    IF lock = "empty" THEN [ok |-> TRUE, lock |-> "loaded"]
    ELSE [ok |-> FALSE, lock |-> lock]

\* The rest of a load_*_tokenizer call: OnceLock::set and its map_err.
LoadSet(cell, t, set) ==
    IF set.ok
    THEN [cell EXCEPT !.installs = @ + 1,
                      !.calls[t] = [pc |-> "done", result |-> Ok(<<>>)]]
    ELSE [cell EXCEPT !.calls[t] = [pc |-> "done", result |-> Err("Internal")]]

load_embedding_tokenizer(t) ==
    /\ loads.embedding.calls[t].pc = "idle"
    /\ loads' = [loads EXCEPT !.embedding = LoadFromFile(@, t)]
    /\ UNCHANGED <<settings, http, EMBEDDING_TOKENIZER, RERANKER_TOKENIZER, health, tok, emb,
                   rr, in_flight, log>>

load_embedding_tokenizer_set(t) ==
    /\ loads.embedding.calls[t].pc = "set"
    /\ LET set == OnceLockSet(EMBEDDING_TOKENIZER)
       IN  /\ EMBEDDING_TOKENIZER' = set.lock
           /\ loads' = [loads EXCEPT !.embedding = LoadSet(@, t, set)]
    /\ UNCHANGED <<settings, http, RERANKER_TOKENIZER, health, tok, emb, rr, in_flight, log>>

load_reranker_tokenizer(t) ==
    /\ loads.reranker.calls[t].pc = "idle"
    /\ loads' = [loads EXCEPT !.reranker = LoadFromFile(@, t)]
    /\ UNCHANGED <<settings, http, EMBEDDING_TOKENIZER, RERANKER_TOKENIZER, health, tok, emb,
                   rr, in_flight, log>>

load_reranker_tokenizer_set(t) ==
    /\ loads.reranker.calls[t].pc = "set"
    /\ LET set == OnceLockSet(RERANKER_TOKENIZER)
       IN  /\ RERANKER_TOKENIZER' = set.lock
           /\ loads' = [loads EXCEPT !.reranker = LoadSet(@, t, set)]
    /\ UNCHANGED <<settings, http, EMBEDDING_TOKENIZER, health, tok, emb, rr, in_flight, log>>

\* A process in which nothing is loaded yet and up to MaxLoaders callers per
\* load function run in any order, one after the other or at once.
TokenizerFiles == { "unset", "unreadable", "readable" }

InitStartup ==
    /\ settings = Settings(MaxBatch, MaxSeqLen, MaxSeqLen)
    /\ EMBEDDING_TOKENIZER = "empty"
    /\ RERANKER_TOKENIZER = "empty"
    /\ \E file \in TokenizerFiles, reranker_file \in TokenizerFiles :
           loads = [embedding |-> NotLoaded(file), reranker |-> NotLoaded(reranker_file)]
    /\ tok = NoTokCall
    /\ emb = EmbIdle
    /\ rr = RrIdle
    /\ in_flight = <<>>
    /\ log = EmptyLog
    /\ health = HealthIdle
    /\ http = HttpIdle

NextStartup ==
    \E t \in Loaders :
        \/ load_embedding_tokenizer(t)
        \/ load_embedding_tokenizer_set(t)
        \/ load_reranker_tokenizer(t)
        \/ load_reranker_tokenizer_set(t)

SpecStartup == InitStartup /\ [][NextStartup]_vars

\* ------------------------------------------- the service, two requests at once
\* One create_embeddings and one rerank_documents invocation running at the
\* same time: their steps interleave in every order and the backend answers
\* the requests in flight in any order.
ConcurrentTexts     == SeqsUpTo({ <<1>>, BadString }, 2)
ConcurrentDocuments == SeqsUpTo({ <<2>>, BadString }, 1)

SettingsConcurrent == Settings(1, MaxSeqLen, MaxSeqLen)

InitConcurrent ==
    /\ settings = SettingsConcurrent
    /\ Started

NextConcurrent ==
    \/ \E texts \in ConcurrentTexts : create_embeddings(texts, "separation")
    \/ create_embeddings_resume
    \/ \E documents \in ConcurrentDocuments, return_documents \in BOOLEAN :
           rerank_documents(<<1>>, documents, None, return_documents)
    \/ rerank_documents_resume

SpecConcurrent == InitConcurrent /\ [][NextConcurrent]_vars

\* ------------------------------------------- rerank replies, byte by byte
\* Rerank requests over one or two documents whose 200 reply carries one
\* score token per document, NaN tokens included.
BodyDocuments == { <<1>>, <<2>> }

InitBodies == InitReranking

NextBodies ==
    \/ \E documents \in SeqsUpTo(BodyDocuments, 2), return_documents \in BOOLEAN :
           rerank_documents(<<1>>, documents, None, return_documents)
    \/ rerank_documents_resume_body

SpecBodies == InitBodies /\ [][NextBodies]_vars

\* --------------------------------------------------------- router and auth
\* The literal "Bearer " of the Authorization header, as one symbol.
Bearer == <<8>>

\* Characters of an API key and of a header value; a header value may also
\* hold bytes on which HeaderValue::to_str fails (BadChars).
KeyChars    == Chars \cup {8}
HeaderChars == KeyChars \cup BadChars

\* str::starts_with
starts_with(s, prefix) ==
    Len(s) >= Len(prefix) /\ SubSeq(s, 1, Len(prefix)) = prefix

\* headers.get("Authorization").and_then(|h| h.to_str().ok()).unwrap_or("")
AuthHeader(authorization) ==
    IF authorization = None THEN <<>>
    ELSE IF \E i \in 1..Len(authorization[1]) : authorization[1][i] \in BadChars
    THEN <<>>
    ELSE authorization[1]

\* Mutant of ProvidedKey: the header taken as it is, prefix and all.
ProvidedKeyWithPrefix(auth_header) == auth_header

\* if auth_header.starts_with("Bearer ") { &auth_header[7..] } else { auth_header }
ProvidedKey(auth_header) ==
    IF starts_with(auth_header, Bearer)
    THEN SubSeq(auth_header, Len(Bearer) + 1, Len(auth_header))
    ELSE auth_header

\* auth_middleware up to its return or its next.run(request): whether the
\* request is passed on and, if it is not, the status returned.
auth_middleware(authorization) ==
    IF ~settings.require_api_key THEN [run_next |-> TRUE, status |-> 0]
    ELSE IF settings.api_key = None \/ settings.api_key[1] = <<>>
    THEN [run_next |-> FALSE, status |-> 500]      \* INTERNAL_SERVER_ERROR
    ELSE LET expected_key == settings.api_key[1]
             provided_key == ProvidedKey(AuthHeader(authorization))
         IN  IF provided_key = <<>>
             THEN [run_next |-> FALSE, status |-> 401]       \* UNAUTHORIZED
             ELSE IF provided_key # expected_key
             THEN [run_next |-> FALSE, status |-> 401]
             ELSE [run_next |-> TRUE, status |-> 0]

\* create_router: the routes, their handlers, and the routes that lie under
\* .layer(middleware::from_fn(auth_middleware)).
Routes == { "/v1/embeddings", "/v1/rerank", "/health" }

HandlerOf(path) ==
    CASE path = "/v1/embeddings" -> "create_embeddings"
      [] path = "/v1/rerank"     -> "rerank_documents"
      [] path = "/health"        -> "health_check"

ProtectedRoute(path) == path \in { "/v1/embeddings", "/v1/rerank" }

\* Statuses a handler answers with: 200, or the status of an AppError.
HandlerStatuses == { 200, 400, 500, 503 }

\* A request arrives at the router and runs up to the await of its handler,
\* or to the middleware's refusal.
request_received(path, authorization) ==
    /\ http.pc = "idle"
    /\ LET received == [http EXCEPT !.path = path, !.authorization = authorization]
           decision == IF ProtectedRoute(path) THEN auth_middleware(authorization)
                       ELSE [run_next |-> TRUE, status |-> 0]
       IN  http' = IF decision.run_next
                   THEN [received EXCEPT !.pc = "handler", !.handler = HandlerOf(path)]
                   ELSE [received EXCEPT !.pc = "done", !.status = decision.status]
    /\ UNCHANGED <<settings, EMBEDDING_TOKENIZER, RERANKER_TOKENIZER, health, loads, tok,
                   emb, rr, in_flight, log>>

\* The handler the request was passed to returns its response.
handler_returned ==
    /\ http.pc = "handler"
    /\ \E status \in HandlerStatuses :
           http' = [http EXCEPT !.pc = "done", !.status = status]
    /\ UNCHANGED <<settings, EMBEDDING_TOKENIZER, RERANKER_TOKENIZER, health, loads, tok,
                   emb, rr, in_flight, log>>

\* Settings with the two fields the middleware reads.
SettingsWithKey(require_api_key, api_key) ==
    [embedding_client_max_batch   |-> MaxBatch,
     max_sequence_length          |-> MaxSeqLen,
     reranker_max_sequence_length |-> MaxSeqLen,
     require_api_key              |-> require_api_key,
     api_key                      |-> api_key]

ApiKeys        == {None} \cup {Some(k) : k \in SeqsUpTo(KeyChars, MaxKeyLen)}
Authorizations == {None} \cup {Some(h) : h \in SeqsUpTo(HeaderChars, MaxKeyLen + 1)}

InitAuth ==
    /\ settings \in { SettingsWithKey(r, k) : r \in BOOLEAN, k \in ApiKeys }
    /\ Started

NextAuth ==
    \/ \E path \in Routes, authorization \in Authorizations :
           request_received(path, authorization)
    \/ handler_returned

SpecAuth == InitAuth /\ [][NextAuth]_vars

\* =================================================================== claims
\* The reply is one get_embeddings / get_scores turns into an Err.
FailedReply(reply) ==
    \/ ~reply.sent
    \/ reply.status \notin 200..299
    \/ ~reply.decodable
    \/ reply.outputs = <<>>

\* The vector a backend that embeds every row produces for text i (1-based)
\* of the request: the model's vector for that text's row in its chunk.
VectorForText(i) ==
    LET k == settings.embedding_client_max_batch
        c == ((i - 1) \div k) + 1
        p == ((i - 1) % k) + 1
        first == (c - 1) * k + 1
        chunk == SubSeq(emb.texts, first, Min(first + k - 1, Len(emb.texts)))
        t == TokenizeBatch(chunk, settings.max_sequence_length)
    IN  ModelVector(t.input_ids[p], t.attention_mask[p])

\* C1: a successful create_embeddings over N texts with max batch size
\* k >= 1 returns exactly N results, result i carrying index i (0-based, in
\* input order) and the vector the backend produced for the i-th text.
C1_OneResultPerText ==
    (emb.pc = "done" /\ emb.result.kind = "Ok"
        /\ settings.embedding_client_max_batch >= 1)
    => LET res == emb.result.value
           N   == Len(emb.texts)
       IN  /\ Len(res) = N
           /\ \A i \in 1..N : /\ res[i].index = i - 1
                              /\ res[i].vector = VectorForText(i)

\* The scores the backend sent for the rerank request.
BackendScores == log.reply[1].outputs[1].data

\* C2: the sequence rerank_documents returns is sorted non-increasing by
\* relevance_score, and each result's relevance_score is the backend score at
\* position result.index.
C2_SortedByScore ==
    (rr.pc = "done" /\ rr.result.kind = "Ok")
    => LET res == rr.result.value
       IN  /\ \A i \in 1..(Len(res) - 1) :
                  res[i].relevance_score >= res[i + 1].relevance_score
           /\ \A i \in 1..Len(res) :
                  /\ res[i].index < Len(BackendScores)
                  /\ res[i].relevance_score = BackendScores[res[i].index + 1]

\* C2 witness: three results came back in an order that differs from the
\* backend's, so the sort moved something.
C2_Witness ==
    /\ rr.pc = "done" /\ rr.result.kind = "Ok"
    /\ Len(rr.result.value) = 3
    /\ BackendScores = <<0, 2, 1>>
    /\ [i \in 1..3 |-> rr.result.value[i].index] = <<1, 2, 0>>

\* C3: over N documents, top_n = None returns all N results, top_n = k < N
\* returns exactly the first k entries of the sorted list (none for k = 0),
\* and top_n >= N returns all N results.
C3_TopN ==
    (rr.pc = "done" /\ rr.result.kind = "Ok")
    => LET res == rr.result.value
           N   == Len(rr.documents)
           all == SortBy(RerankModels(BackendScores, rr.documents,
                                      rr.return_documents))
       IN  /\ rr.top_n = None => Len(res) = N
           /\ (rr.top_n # None /\ rr.top_n[1] < N)
                 => /\ Len(res) = rr.top_n[1]
                    /\ \A i \in 1..Len(res) : res[i] = all[i]
           /\ (rr.top_n # None /\ rr.top_n[1] >= N) => Len(res) = N

\* C4: create_embeddings with an empty texts list and rerank_documents with
\* an empty documents list each return a Validation error, having called
\* neither the tokenizer nor the backend.
C4_EmptyInputRejected ==
    /\ (emb.pc = "done" /\ emb.texts = <<>>)
          => /\ emb.result = Err("Validation")
             /\ log = EmptyLog
             /\ in_flight = <<>>
    /\ (rr.pc = "done" /\ rr.documents = <<>>)
          => /\ rr.result = Err("Validation")
             /\ log = EmptyLog
             /\ in_flight = <<>>

\* C4 witness: a rerank call with no documents has returned.
C4_Witness ==
    /\ rr.pc = "done" /\ rr.documents = <<>>
    /\ rr.result.kind = "Err"

\* C5: a failed chunk ends the request with that chunk's error: the failed
\* reply (or failed tokenization) is the last call the request makes, no
\* request is sent twice, and the result carries no embeddings.
C5_FailFast ==
    LET nr == Len(log.reply)
        nt == Len(log.tokenize)
    IN  /\ \A i \in 1..nr : FailedReply(log.reply[i])
              => /\ i = nr
                 /\ emb.pc = "done"
                 /\ emb.result.kind = "Err"
                 /\ emb.result.error =
                        (IF log.reply[i].sent THEN "Inference" ELSE "TritonConnection")
                 /\ emb.result.value = <<>>
                 /\ Len(log.infer) = i
                 /\ in_flight = <<>>
        /\ \A i \in 1..nt : (\E j \in 1..Len(log.tokenize[i]) :
                                 log.tokenize[i][j] = BadString)
              => /\ i = nt
                 /\ emb.pc = "done"
                 /\ emb.result = Err("Tokenization")
                 /\ Len(log.infer) = i - 1
                 /\ in_flight = <<>>
        /\ Len(log.infer) <= nt
        /\ nt <= Len(emb.chunks)

\* C5 witness: the second of three chunks failed after the first had
\* produced a vector.
C5_Witness ==
    /\ emb.pc = "done" /\ emb.result.kind = "Err"
    /\ Len(emb.chunks) = 3
    /\ Len(log.reply) = 2
    /\ FailedReply(log.reply[2])
    /\ emb.all_embeddings # <<>>

\* C6: for max batch size k >= 1 the chunks the pipeline iterates over have
\* between 1 and k items each and, concatenated in iteration order, are the
\* input list; the tokenizer sees them in that order.
C6_ChunksPartitionInput ==
    (emb.pc \in {"await", "done"} /\ emb.texts # <<>>
        /\ settings.embedding_client_max_batch >= 1)
    => /\ \A c \in 1..Len(emb.chunks) :
              /\ Len(emb.chunks[c]) >= 1
              /\ Len(emb.chunks[c]) <= settings.embedding_client_max_batch
       /\ Flatten(emb.chunks) = emb.texts
       /\ Len(log.tokenize) <= Len(emb.chunks)
       /\ \A c \in 1..Len(log.tokenize) : log.tokenize[c] = emb.chunks[c]

\* C6 witness: three texts with k = 2 went through in a chunk of two and a
\* chunk of one.
C6_Witness ==
    /\ emb.pc = "done" /\ emb.result.kind = "Ok"
    /\ Len(emb.texts) = 3
    /\ settings.embedding_client_max_batch = 2
    /\ log.tokenize = << SubSeq(emb.texts, 1, 2), SubSeq(emb.texts, 3, 3) >>

\* C7: a successful create_embeddings over N texts with max batch size k
\* has made exactly ceil(N/k) /infer calls, the c-th for the c-th group of k
\* texts; a call is sent only when every earlier one has been answered, so
\* at most one is in flight.
C7_SequentialCalls ==
    LET k == settings.embedding_client_max_batch
        N == Len(emb.texts)
    IN  /\ Len(in_flight) <= 1
        /\ Len(log.infer) = Len(log.reply) + Len(in_flight)
        /\ \A c \in 1..Len(log.infer) :
               log.infer[c].inputs[1].shape[1] = Min(k, N - (c - 1) * k)
        /\ (emb.pc = "done" /\ emb.result.kind = "Ok")
              => Len(log.infer) = (N + k - 1) \div k

\* C7 witness: two texts with k = 1 took two calls.
C7_Witness ==
    /\ emb.pc = "done" /\ emb.result.kind = "Ok"
    /\ Len(emb.texts) = 2
    /\ settings.embedding_client_max_batch = 1
    /\ Len(log.infer) = 2

\* What the tokenizer was given for row i of the direct call: the text
\* itself, or the query joined to the document.
TokInput(i) ==
    IF tok.fn = "reranking" THEN Combine(tok.query, tok.inputs[i]) ELSE tok.inputs[i]

\* Number of tokens of the longest input of the direct call.
RECURSIVE LongestEncoding(_)
LongestEncoding(n) ==
    IF n = 0 THEN 0 ELSE Max(Len(Encode(TokInput(n)).ids), LongestEncoding(n - 1))

TokReturnedRows == tok.fn # "none" /\ tok.out.ok

\* C8: the tensors of tokenize_for_embedding / tokenize_for_reranking are
\* rectangular: ids and mask have one row per input, and every row has
\* length L = min(max_length, longest tokenized sequence of the batch).
C8_Rectangular ==
    TokReturnedRows
    => LET n == Len(tok.inputs)
           L == Min(tok.max_length, LongestEncoding(n))
       IN  /\ Len(tok.out.input_ids) = n
           /\ Len(tok.out.attention_mask) = n
           /\ L <= tok.max_length
           /\ \A i \in 1..n : /\ Len(tok.out.input_ids[i]) = L
                              /\ Len(tok.out.attention_mask[i]) = L

\* C8 witness: a batch of two inputs, one longer than max_length and one
\* shorter, so one row was cut and the other padded.
C8_Witness ==
    /\ TokReturnedRows
    /\ Len(tok.inputs) = 2
    /\ Len(Encode(TokInput(1)).ids) < tok.max_length
    /\ Len(Encode(TokInput(2)).ids) > tok.max_length

\* C9 as stated: every output row has length exactly max_length.
C9_FixedLength ==
    TokReturnedRows
    => \A i \in 1..Len(tok.out.input_ids) :
           /\ Len(tok.out.input_ids[i]) = tok.max_length
           /\ Len(tok.out.attention_mask[i]) = tok.max_length

\* C9 as amended: no output row is longer than max_length, and the rows of
\* a batch have length exactly max_length if and only if the longest
\* tokenized sequence of that batch has at least max_length tokens.
C9_MaxLengthOnlyWhenReached ==
    TokReturnedRows
    => \A i \in 1..Len(tok.out.input_ids) :
           /\ Len(tok.out.input_ids[i]) <= tok.max_length
           /\ Len(tok.out.attention_mask[i]) <= tok.max_length
           /\ (Len(tok.out.input_ids[i]) = tok.max_length)
                 <=> (LongestEncoding(Len(tok.inputs)) >= tok.max_length)

\* C9 witness: a batch whose rows all came out shorter than max_length.
C9_Witness ==
    /\ TokReturnedRows
    /\ Len(tok.inputs) = 2
    /\ LongestEncoding(2) < tok.max_length
    /\ Len(tok.out.input_ids[1]) < tok.max_length
    /\ Len(Encode(TokInput(1)).ids) # Len(Encode(TokInput(2)).ids)

\* The rows the c-th /infer request was built from: the tokenizer's output
\* for the c-th batch it was given.
RowsOfRequest(c) ==
    IF log.infer[c].model = "embedding"
    THEN TokenizeBatch(log.tokenize[c], settings.max_sequence_length)
    ELSE TokenizeBatch([i \in 1..Len(rr.documents) |->
                            Combine(rr.query, rr.documents[i])],
                       settings.reranker_max_sequence_length)

\* Tensor `input` has shape [rows, cols], rows * cols data items, and row r of
\* `rows` at data positions (r-1)*cols+1 .. r*cols (1-based).
TensorHolds(input, rows, cols) ==
    /\ input.shape = <<Len(rows), cols>>
    /\ Len(input.data) = input.shape[1] * input.shape[2]
    /\ \A r \in 1..Len(rows) :
           /\ Len(rows[r]) = cols
           /\ \A j \in 1..cols : input.data[(r - 1) * cols + j] = rows[r][j]

\* C10: in every /infer request the declared shape of each input tensor
\* matches its flat data: input_ids and attention_mask are [batch, seq] with
\* batch * seq items laid out row after row, task_id is [batch, 1].
C10_ShapeMatchesData ==
    \A c \in 1..Len(log.infer) :
        LET request == log.infer[c]
            t       == RowsOfRequest(c)
            seq     == Len(t.input_ids[1])
        IN  /\ t.ok
            /\ TensorHolds(request.inputs[1], t.input_ids, seq)
            /\ TensorHolds(request.inputs[2], t.attention_mask, seq)
            /\ request.model = "embedding"
                  => /\ Len(request.inputs) = 3
                     /\ TensorHolds(request.inputs[3],
                                    [r \in 1..Len(t.input_ids) |-> <<emb.task_id>>], 1)
            /\ request.model = "reranker" => Len(request.inputs) = 2

\* C10 witness: a request of two rows of different content, one of them
\* padded, has been sent.
C10_Witness ==
    /\ Len(log.infer) = 1
    /\ log.infer[1].inputs[1].shape[1] = 2
    /\ log.infer[1].inputs[2].data[Len(log.infer[1].inputs[2].data)] = 0
    /\ log.infer[1].model = "embedding"

\* The id the task table assigns to a task name.
ExpectedTaskId(task) ==
    CASE task = "retrieval.query"   -> 0
      [] task = "retrieval.passage" -> 1
      [] task = "separation"        -> 2
      [] task = "classification"    -> 3
      [] task = "text-matching"     -> 4
      [] OTHER                      -> 0

\* C11: get_task_id maps the five task names to 0..4 and every other name
\* (the empty string included) to 0; the id is what every /infer request of
\* the call carries, and a create_embeddings that fails has a cause that is
\* not the task: empty input, a failed tokenization, a failed or malformed
\* reply, or a zero batch size.
C11_TaskIdTotal ==
    /\ \A task \in TaskNames : get_task_id(task) = ExpectedTaskId(task)
    /\ get_task_id("") = get_task_id("retrieval.query")
    /\ \A c \in 1..Len(log.infer) :
           /\ emb.task_id = ExpectedTaskId(emb.task)
           /\ \A r \in 1..Len(log.infer[c].inputs[3].data) :
                  log.infer[c].inputs[3].data[r] = ExpectedTaskId(emb.task)
    /\ (emb.pc = "done" /\ emb.result.kind = "Err")
          => \/ emb.result.error = "Validation" /\ emb.texts = <<>>
             \/ /\ emb.result.error = "Tokenization"
                /\ \E j \in 1..Len(emb.texts) : emb.texts[j] = BadString
             \/ /\ emb.result.error \in {"Inference", "TritonConnection"}
                /\ log.reply # <<>>
                /\ FailedReply(log.reply[Len(log.reply)])
    /\ (emb.pc = "done" /\ emb.result.kind = "Panic")
          => \/ settings.embedding_client_max_batch = 0
             \/ /\ log.reply # <<>>
                /\ LET shape == log.reply[Len(log.reply)].outputs[1].shape
                   IN  Len(shape) < 2 \/ shape[2] = 0

\* C11 witness: a two-call request under a name the table does not hold
\* went through, its second call carrying id 0.
C11_Witness ==
    /\ emb.pc = "done" /\ emb.result.kind = "Ok"
    /\ emb.task = "no-such-task"
    /\ Len(log.infer) = 2
    /\ log.infer[2].inputs[3].data = <<0>>

\* The result of the one request in progress or finished.
RequestResult == IF emb.pc # "idle" THEN emb.result ELSE rr.result

\* C12: get_embeddings and get_scores turn a non-2xx status, an undecodable
\* body and a decoded response without outputs into an Inference error, and
\* a request that could not be sent into a connection error; none of these
\* replies yields a success, and the caller ends with that error.
C12_ReplyErrors ==
    /\ \A reply \in TransportErrors :
           LET expected == IF reply.sent THEN Err("Inference")
                           ELSE Err("TritonConnection")
           IN  /\ EmbeddingsFromReply(reply) = expected
               /\ ScoresFromReply(reply) = expected
    /\ \A i \in 1..Len(log.reply) :
           LET reply == log.reply[i]
           IN  /\ ~reply.sent => RequestResult = Err("TritonConnection")
               /\ (reply.sent /\ ~is_success(reply.status))
                     => RequestResult = Err("Inference")
               /\ (reply.sent /\ is_success(reply.status) /\ ~reply.decodable)
                     => RequestResult = Err("Inference")
               /\ (reply.sent /\ is_success(reply.status) /\ reply.decodable
                      /\ reply.outputs = <<>>)
                     => RequestResult = Err("Inference")

\* C12 witness: the reranker answered 200 with a decodable body that holds
\* no outputs, and the rerank call ended with an Inference error.
C12_Witness ==
    /\ rr.pc = "done"
    /\ log.reply = << Reply(TRUE, 200, TRUE, <<>>) >>
    /\ rr.result = Err("Inference")

\* C13: whenever get_embeddings returns successfully, its rows are the first
\* output's data cut into rows of width shape[1], and there are as many rows
\* as the request had rows of input_ids.
C13_RowCountIsBatchSize ==
    \A i \in 1..Len(log.reply) :
        LET returned == EmbeddingsFromReply(log.reply[i])
        IN  returned.kind = "Ok"
            => LET output == log.reply[i].outputs[1]
                   rows   == returned.value
               IN  /\ Flatten(rows) = output.data
                   /\ \A r \in 1..Len(rows) : Len(rows[r]) = output.shape[2]
                   /\ Len(rows) = log.infer[i].inputs[1].shape[1]

\* The (index, relevance_score) pairs of a list of results.
ScoredIndexes(results) ==
    [i \in 1..Len(results) |-> <<results[i].index, results[i].relevance_score>>]

\* C14: for the query, documents, top_n and backend reply of a rerank call,
\* the call with return_documents = false returns results without
\* documents, the call with return_documents = true returns with each
\* result the document at its index, and the two return the same sequence
\* of (index, relevance_score) pairs.
C14_ReturnDocumentsOnlyPayload ==
    (rr.pc = "done" /\ log.reply # <<>>)
    => LET scores  == ScoresFromReply(log.reply[1])
           with    == RerankResult(scores, rr.documents, rr.top_n, TRUE)
           without == RerankResult(scores, rr.documents, rr.top_n, FALSE)
       IN  /\ rr.result = IF rr.return_documents THEN with ELSE without
           /\ without.kind = "Ok"
                 => \A i \in 1..Len(without.value) : without.value[i].document = None
           /\ with.kind = "Ok"
                 => \A i \in 1..Len(with.value) :
                        with.value[i].document =
                            Some(rr.documents[with.value[i].index + 1])
           /\ with.kind = without.kind
           /\ with.kind = "Ok"
                 => ScoredIndexes(with.value) = ScoredIndexes(without.value)

\* A probe of the given kind for the given service has been answered 2xx.
ProbeSucceeded(service, probe) ==
    \E i \in 1..Len(health.probes) :
        /\ health.probes[i].service = service
        /\ health.probes[i].probe = probe
        /\ health.probes[i].answer.sent
        /\ health.probes[i].answer.status \in 200..299

\* Readiness as claimed: liveness probe AND model probe, a failed probe
\* counting as false.
ExpectedReady(service) ==
    ProbeSucceeded(service, "live") /\ ProbeSucceeded(service, "ready")

\* C15: every is_ready call returns Ok(liveness AND model readiness), a
\* probe that could not be sent counting as false and never making is_ready
\* fail; the /health handler always answers, with those two values.
C15_ReadinessNeverFails ==
    /\ \A i \in 1..Len(health.is_ready) :
           /\ health.is_ready[i].result.kind = "Ok"
           /\ health.is_ready[i].result.value =
                  ExpectedReady(health.is_ready[i].service)
    /\ health.pc = "done"
          => health.response =
                 [status |-> "ok",
                  embedding_service |-> [ready |-> ExpectedReady("embedding")],
                  reranking_service |-> [ready |-> ExpectedReady("reranking")]]

\* C16: a rerank request over N >= 1 documents makes at most one /infer
\* call, exactly one when tokenization succeeds and none when it fails; the
\* call is not repeated after a failed reply; its batch size is N whatever
\* the configured max batch size; it carries input_ids and attention_mask
\* only and asks for the output "scores".
C16_OneScoresCall ==
    LET N == Len(rr.documents)
        tokenizable == \A i \in 1..N : rr.documents[i] # BadString
    IN  /\ Len(log.infer) <= 1
        /\ Len(log.infer) = Len(log.reply) + Len(in_flight)
        /\ (rr.pc # "idle" /\ N >= 1 /\ tokenizable) => Len(log.infer) = 1
        /\ (rr.pc # "idle" /\ ~tokenizable) => Len(log.infer) = 0
        /\ \A c \in 1..Len(log.infer) :
               LET request == log.infer[c]
               IN  /\ request.model = "reranker"
                   /\ [i \in 1..Len(request.inputs) |-> request.inputs[i].name]
                          = <<"input_ids", "attention_mask">>
                   /\ request.inputs[1].shape[1] = N
                   /\ request.inputs[2].shape[1] = N
                   /\ request.outputs = << [name |-> "scores"] >>

\* C16 witness: three documents, more than the configured max batch size,
\* went out in one call of batch size three, and the call failed without
\* being repeated.
C16_Witness ==
    /\ rr.pc = "done" /\ rr.result.kind = "Err"
    /\ Len(rr.documents) = 3
    /\ settings.embedding_client_max_batch < 3
    /\ Len(log.infer) = 1
    /\ log.infer[1].inputs[1].shape[1] = 3
    /\ Len(log.reply) = 1

\* C17: in the list rerank_documents returns, of two results the one with
\* the greater score comes first and, when the scores are equal, the one with
\* the smaller original index comes first; the order is thereby fixed by
\* the score list.
C17_StableOnTies ==
    (rr.pc = "done" /\ rr.result.kind = "Ok")
    => LET res == rr.result.value
       IN  \A i \in 1..Len(res) : \A j \in (i + 1)..Len(res) :
               \/ res[i].relevance_score > res[j].relevance_score
               \/ /\ res[i].relevance_score = res[j].relevance_score
                  /\ res[i].index < res[j].index

\* C17 witness: the first two of three documents tie below the third; they
\* come back after it, in their original order.
C17_Witness ==
    /\ rr.pc = "done" /\ rr.result.kind = "Ok"
    /\ BackendScores = <<1, 1, 2>>
    /\ [i \in 1..Len(rr.result.value) |-> rr.result.value[i].index] = <<2, 0, 1>>

\* C18: in every row the tokenizer functions return, the first
\* min(len, max_length) positions hold the encoder's ids and attention
\* flags for that input, in order, and every later position holds id 0 and
\* mask 0.
C18_PrefixKeptPaddingRight ==
    TokReturnedRows
    => \A i \in 1..Len(tok.inputs) :
           LET enc  == Encode(TokInput(i))
               keep == Min(Len(enc.ids), tok.max_length)
               ids  == tok.out.input_ids[i]
               mask == tok.out.attention_mask[i]
           IN  /\ Len(ids) >= keep
               /\ Len(mask) = Len(ids)
               /\ \A j \in 1..keep : ids[j] = enc.ids[j] /\ mask[j] = enc.mask[j]
               /\ \A j \in (keep + 1)..Len(ids) : ids[j] = 0 /\ mask[j] = 0

\* C18 witness: a reranking batch whose first row was padded and whose
\* second row lost its tail.
C18_Witness ==
    /\ TokReturnedRows
    /\ tok.fn = "reranking"
    /\ Len(tok.inputs) = 2
    /\ Len(Encode(TokInput(2)).ids) > tok.max_length
    /\ Len(Encode(TokInput(1)).ids) < Len(tok.out.input_ids[1])
    /\ tok.out.attention_mask[1][Len(tok.out.attention_mask[1])] = 0
    /\ tok.out.attention_mask[2][Len(tok.out.attention_mask[2])] = 1

\* The calls of one load function that have returned with the given result.
LoadCallsReturning(cell, result) ==
    { t \in Loaders : cell.calls[t].pc = "done" /\ cell.calls[t].result = result }

\* C19 for one tokenizer: at most one call installs it and returns Ok, the
\* file is loaded at most once however many calls are made, every other
\* call of a loadable tokenizer returns Internal, and the cell holds a
\* tokenizer exactly when one call installed it.
LoadedOnce(cell, lock) ==
    /\ cell.installs <= 1
    /\ Cardinality(LoadCallsReturning(cell, Ok(<<>>))) = cell.installs
    /\ cell.from_file <= 1
    /\ cell.file = "readable"
          => \A t \in Loaders : cell.calls[t].pc = "done"
                 => cell.calls[t].result \in {Ok(<<>>), Err("Internal")}
    /\ (lock = "loaded") <=> (cell.installs = 1)

\* C19: each tokenizer is loaded exactly once per process under any order
\* or interleaving of load calls: one call per model loads and installs,
\* the others return Internal without loading again, and the installed
\* tokenizer is not replaced.
C19_LoadedExactlyOnce ==
    /\ LoadedOnce(loads.embedding, EMBEDDING_TOKENIZER)
    /\ LoadedOnce(loads.reranker, RERANKER_TOKENIZER)

\* The replies an invocation has received, in order, out of the first n.
RECURSIVE RepliesTo(_, _)
RepliesTo(by, n) ==
    IF n = 0 THEN <<>>
    ELSE RepliesTo(by, n - 1)
         \o (IF log.answered[n].by = by THEN <<log.reply[n]>> ELSE <<>>)

\* The requests those replies answered.
RECURSIVE AnsweredTo(_, _)
AnsweredTo(by, n) ==
    IF n = 0 THEN <<>>
    ELSE AnsweredTo(by, n - 1)
         \o (IF log.answered[n].by = by THEN <<log.answered[n].request>> ELSE <<>>)

\* The /infer calls made to one model, in order.
CallsTo(model) == SelectSeq(log.infer, LAMBDA request : request.model = model)

\* create_embeddings run on its own over the given texts and task, the
\* backend answering its calls with `replies` in turn.
RECURSIVE EmbeddingAlone(_, _)
EmbeddingAlone(step, replies) ==
    IF replies = <<>> \/ step.emb.pc # "await" THEN step
    ELSE EmbeddingAlone(EmbeddingResumed(step.emb, step.log, step.sent[1],
                                         Head(replies)),
                        Tail(replies))

\* rerank_documents run on its own, the backend answering with `replies`.
RerankAlone(step, replies) ==
    IF replies = <<>> \/ step.rr.pc # "await" THEN step
    ELSE RerankResumed(step.rr, step.log, step.sent[1], Head(replies))

HasNaN(body) == \E i \in 1..Len(body) : body[i] = NaN

ChunkBatchesNonEmpty ==
    \A k \in 1..MaxBatch : \A texts \in SeqsUpTo({<<1>>}, MaxTexts) :
        \A c \in 1..Len(Chunks(texts, k)) :
            LET t == tokenize_for_embedding("loaded", Chunks(texts, k)[c], MaxSeqLen)
            IN  Len(t.input_ids) >= 1 /\ Len(t.input_ids) <= k

\* C22: every /infer call of the embedding pipeline has between 1 and
\* max-batch rows and every /infer call of the reranking pipeline at least
\* one; no batch handed to get_embeddings / get_scores is empty, so each
\* tokenization that succeeds is followed by its call and no request aborts
\* on input_ids[0] before a reply has come.
C22_NonEmptyBatches ==
    /\ ChunkBatchesNonEmpty
    /\ \A c \in 1..Len(log.infer) :
           LET request == log.infer[c]
               b       == request.inputs[1].shape[1]
           IN  /\ b >= 1
               /\ request.model = "embedding"
                     => b <= settings.embedding_client_max_batch
               /\ Len(request.inputs[1].data) = b * request.inputs[1].shape[2]
    /\ \A i \in 1..Len(log.tokenize) :
           (\A j \in 1..Len(log.tokenize[i]) : log.tokenize[i][j] # BadString)
           => Len(log.infer) >= i
    /\ (emb.pc = "done" /\ emb.result.kind = "Panic") => log.reply # <<>>
    /\ (rr.pc = "done" /\ rr.result.kind = "Panic") => log.reply # <<>>

\* C22 witness: a rerank request over a single document is waiting for the
\* answer to its call of one row.
C22_Witness ==
    /\ rr.pc = "await"
    /\ Len(rr.documents) = 1
    /\ Len(in_flight) = 1
    /\ in_flight[1].inputs[1].shape[1] = 1

\* C23: for every decodable /infer response with at least one output,
\* get_embeddings returns Ok or Err and does not abort, also when the first
\* output's shape has fewer than two dimensions or a second dimension of 0.
C23_UnflattenNeverAborts ==
    \A i \in 1..Len(log.reply) :
        LET reply == log.reply[i]
        IN  (reply.sent /\ is_success(reply.status) /\ reply.decodable
                /\ reply.outputs # <<>>)
            => /\ EmbeddingsFromReply(reply).kind \in {"Ok", "Err"}
               /\ emb.result.kind # "Panic"

\* C24: a rerank_documents call over N documents that got a reply does not
\* abort on documents[index], and each result it returns has an index in
\* 0..N-1 that no other result has, however many scores the reply held.
C24_IndexesInRange ==
    (rr.pc = "done" /\ log.reply # <<>>)
    => /\ rr.result.kind # "Panic"
       /\ rr.result.kind = "Ok"
             => LET res == rr.result.value
                    N   == Len(rr.documents)
                IN  /\ \A i \in 1..Len(res) :
                           res[i].index >= 0 /\ res[i].index < N
                    /\ \A i \in 1..Len(res) : \A j \in 1..Len(res) :
                           res[i].index = res[j].index => i = j

\* The Authorization header of the request as text ("" when it is missing
\* or unreadable), without one leading "Bearer ".
PresentedKey ==
    LET text == IF http.authorization = None THEN <<>>
                ELSE IF \E i \in 1..Len(http.authorization[1]) :
                            http.authorization[1][i] \in BadChars
                THEN <<>>
                ELSE http.authorization[1]
    IN  IF text # <<>> /\ text[1] = Bearer[1] THEN Tail(text) ELSE text

KeyConfigured == settings.api_key # None /\ settings.api_key[1] # <<>>

\* C25: with require_api_key set, a request to /v1/embeddings or /v1/rerank
\* is passed to its handler exactly when a non-empty key is configured and
\* the presented key is non-empty and equal to it; otherwise it is answered
\* 500 when no key is configured and 401 when the key is missing or wrong,
\* and no handler runs.  With require_api_key unset every request is passed
\* on, and /health is passed on whatever the settings and the header.
C25_KeyGate ==
    http.pc # "idle"
    => LET gated  == http.path \in {"/v1/embeddings", "/v1/rerank"}
                        /\ settings.require_api_key
           passes == ~gated \/ (/\ KeyConfigured
                                /\ PresentedKey # <<>>
                                /\ PresentedKey = settings.api_key[1])
       IN  /\ (http.handler # "") <=> passes
           /\ passes => http.handler = HandlerOf(http.path)
           /\ ~passes => /\ http.pc = "done"
                         /\ http.status = IF KeyConfigured THEN 401 ELSE 500

\* C25 witness: a rerank request presenting "Bearer " followed by the
\* configured key was passed to its handler and answered 200.
C25_Witness ==
    /\ http.pc = "done" /\ http.status = 200
    /\ http.path = "/v1/rerank"
    /\ http.handler = "rerank_documents"
    /\ settings.require_api_key
    /\ settings.api_key = Some(<<1, 2>>)
    /\ http.authorization = Some(Bearer \o <<1, 2>>)

====
